---- MODULE Spec2Model ----
(***************************************************************************)
(* The hero-canvas particle network of main.js: the colour cycle, the      *)
(* particles, the particle field (sizing, per-frame step, connector pass), *)
(* the animation lifecycle (startAnimation / stopAnimation / animate and   *)
(* the visibility handlers), the pointer tracker and the resize rebuild;   *)
(* and the script's timers: the debounce of the resize listener, the       *)
(* throttle of the scroll listener and the sunbeam flash chain.            *)
(*                                                                         *)
(* Numbers are fixed-point integers:                                       *)
(*   - the colour clock and colour offsets in 1/ColorUnit of a cycle;      *)
(*   - particle coordinates and velocities in 1/Scale of a pixel;          *)
(*   - Math.random() as rng / RandMod, rng the state of a generator.       *)
(* Time is in ms since the script ran; a timer is a record of its handle,  *)
(* its callback, the time it was set and the time it is due.               *)
(* NaN is a distinguished value that every arithmetic operator propagates  *)
(* and every comparison rejects, as IEEE-754 does.                         *)
(***************************************************************************)
EXTENDS Integers, Sequences, FiniteSets, TLC

VARIABLES
    phase,                \* "load": the script is running; "live"; "unloading": beforeunload ran
    hidden,               \* document.hidden
    winW, winH,           \* window.innerWidth, window.innerHeight (px)
    isMobile,             \* const isMobile
    prefersReducedMotion, \* const prefersReducedMotion
    rng,                  \* state of Math.random's generator
    canvasW, canvasH,     \* canvas.width, canvas.height (px)
    particles,            \* let particles
    mouseX, mouseY,       \* let mouseX, mouseY (px)
    animationId,          \* let animationId
    colorTime,            \* let colorTime
    isPageVisible,        \* let isPageVisible
    isCanvasVisible,      \* let isCanvasVisible
    isAnimating,          \* let isAnimating
    pending,              \* the frame requests of the loop the browser holds
    nextId,               \* the handle the next requestAnimationFrame returns
    resizeTimer,          \* whether the timer held in resizeTimeout is pending
    discs,                \* the discs on the canvas, in drawing order
    examined,             \* the pairs the last connector pass looked at
    lines,                \* the connector lines on the canvas, in drawing order
    lastEvent,            \* the handler that ran last
    lastCall,             \* the lifecycle function that handler called last
    wasAnimating,         \* isAnimating when that function was entered
    pointerAccepted,      \* whether a pointer handler has assigned mouseX, mouseY
    now,                  \* the time since the script ran (ms)
    timers,               \* the setTimeout timers the browser holds
    nextTimer,            \* the handle the next setTimeout returns
    resizeTimeout,        \* let resizeTimeout
    lastResizeAt,         \* the time of the last resize event, -1 before the first
    bursts,               \* the bursts of resize events begun so far
    rebuilds,             \* the times the resize timer's callback has run
    sunbeamActive,        \* whether .sunbeam-flash has the class 'active'
    lastFlashAt,          \* the time of the last triggerSunbeam(), -1 before the first
    inThrottle,           \* let inThrottle of handleScroll's throttle (undefined as FALSE)
    scrollY,              \* window.scrollY (px)
    navScrolled           \* whether nav has the class 'scrolled'

vars == <<phase, hidden, winW, winH, isMobile, prefersReducedMotion, rng,
          canvasW, canvasH, particles, mouseX, mouseY, animationId, colorTime,
          isPageVisible, isCanvasVisible, isAnimating, pending, nextId,
          resizeTimer, discs, examined, lines, lastEvent, lastCall, wasAnimating,
          pointerAccepted, now, timers, nextTimer, resizeTimeout, lastResizeAt,
          bursts, rebuilds, sunbeamActive, lastFlashAt, inThrottle, scrollY,
          navScrolled>>

\* what the resize listener and its timer keep, beside the window size
resizeVars == <<resizeTimeout, lastResizeAt, bursts, rebuilds>>
\* what the sunbeam chain keeps
sunbeamVars == <<sunbeamActive, lastFlashAt>>
\* what the scroll listener keeps
scrollVars == <<inThrottle, scrollY, navScrolled>>
\* the clock and the timers
timerVars == <<now, timers, nextTimer>>
\* what the timer callbacks of the sunbeam chain and the scroll listener leave alone
loopVars == <<phase, hidden, isMobile, prefersReducedMotion, canvasW, canvasH,
              particles, mouseX, mouseY, animationId, colorTime, isPageVisible,
              isCanvasVisible, isAnimating, pending, nextId, discs, examined,
              lines, pointerAccepted>>
windowVars == <<winW, winH, resizeTimer>>

----------------------------------------------------------------------------
(* Bounds of the model *)

\* requestAnimationFrame handles 1..MaxId are issued
MaxId == 3
\* Math.random starts from a state in 0..MaxSeed
MaxSeed == 0
\* an IntersectionObserver callback delivers 1..MaxEntries entries
MaxEntries == 1

\* setTimeout handles 1..MaxTimers are issued
MaxTimers == 6

\* window sizes (px) of the lifecycle specification: a few particles each
WindowSizes == { <<800, 30>>, <<400, 100>> }
\* window sizes (px) of the sizing specification
SizingWindows == { <<1000, 1000>>, <<1024, 768>>, <<1920, 1080>>,
                   <<320, 480>>, <<800, 30>>, <<300, 100>> }
\* clientX / clientY of the pointer events (px)
PointerPositions == { <<0, 0>>, <<200, 10>> }

----------------------------------------------------------------------------
(* Fixed-point arithmetic *)

Scale == 8
RandMod == 1024
NaN == -1000000000

Min(a, b) == IF a <= b THEN a ELSE b
Abs(a) == IF a < 0 THEN -a ELSE a

IsNaN(a) == a = NaN
Add(a, b) == IF IsNaN(a) \/ IsNaN(b) THEN NaN ELSE a + b
Sub(a, b) == IF IsNaN(a) \/ IsNaN(b) THEN NaN ELSE a - b
\* a < b, false when either is NaN
Less(a, b) == ~IsNaN(a) /\ ~IsNaN(b) /\ a < b

\* n / d truncated toward zero (d > 0)
Trunc(n, d) == IF n >= 0 THEN n \div d ELSE -((-n) \div d)

\* Math.round(n / d) for d > 0: floor(n/d + 1/2)
Round(n, d) == (2 * n + d) \div (2 * d)

RECURSIVE SqrtBetween(_, _, _)
SqrtBetween(n, lo, hi) ==
    IF lo >= hi THEN lo
    ELSE LET mid == (lo + hi + 1) \div 2
         IN IF mid * mid <= n THEN SqrtBetween(n, mid, hi)
            ELSE SqrtBetween(n, lo, mid - 1)

\* floor(Math.sqrt(n)) for 0 <= n < 2^31
ISqrt(n) == SqrtBetween(n, 0, 46340)

\* Math.random(): the generator's next state; the value drawn is state / RandMod
NextRand(r) == (261 * r + 37) % RandMod

RECURSIVE Jump(_)
\* k draws in one step: <<A, C>> with NextRand^k(r) = (A * r + C) % RandMod
Jump(k) ==
    IF k = 0 THEN <<1, 0>>
    ELSE IF k % 2 = 1
         THEN LET m == Jump(k - 1)
              IN <<(m[1] * NextRand(1) - m[1] * NextRand(0) + RandMod * RandMod) % RandMod,
                   NextRand(m[2])>>
         ELSE LET m == Jump(k \div 2)
              IN <<(m[1] * m[1]) % RandMod, (m[1] * m[2] + m[2]) % RandMod>>

\* the generator's state after k draws from state r
Draw(r, k) == LET m == Jump(k) IN (m[1] * r + m[2]) % RandMod

----------------------------------------------------------------------------
(* Colour cycle *)

\* one cycle of the colour clock (the 1 of "% 1")
ColorUnit == 10000
\* the 0.0008 added to colorTime per frame
ColorIncrement == 8

\* const sunsetColors, indexed from 0 as in the source
sunsetColors ==
    [i \in 0..6 |->
        CASE i = 0 -> [r |-> 255, g |-> 140, b |-> 66]
          [] i = 1 -> [r |-> 201, g |-> 108, b |-> 77]
          [] i = 2 -> [r |-> 212, g |-> 165, b |-> 116]
          [] i = 3 -> [r |-> 255, g |-> 120, b |-> 80]
          [] i = 4 -> [r |-> 180, g |-> 100, b |-> 120]
          [] i = 5 -> [r |-> 156, g |-> 82, b |-> 100]
          [] i = 6 -> [r |-> 201, g |-> 108, b |-> 77]]

\* sunsetColors.length
PaletteLength == Cardinality(DOMAIN sunsetColors)

\* sunsetColors[i]; outside the array a read yields undefined, whose channels
\* are no numbers
PaletteAt(i) ==
    IF i \in DOMAIN sunsetColors THEN sunsetColors[i]
    ELSE [r |-> NaN, g |-> NaN, b |-> NaN]

\* one channel of interpolateColor, factor = num / den
Channel(c1, c2, num, den) ==
    IF IsNaN(c1) \/ IsNaN(c2) THEN NaN
    ELSE Round(c1 * den + (c2 - c1) * num, den)

interpolateColor(color1, color2, num, den) ==
    [r |-> Channel(color1.r, color2.r, num, den),
     g |-> Channel(color1.g, color2.g, num, den),
     b |-> Channel(color1.b, color2.b, num, den)]

\* colorTime + offset, without the wrap
AdjustedTimeNoWrap(ct, offset) == ct + offset

\* (colorTime + offset) % 1
AdjustedTime(ct, offset) == (ct + offset) % ColorUnit

\* const index = Math.floor(adjustedTime * totalSegments)
SegmentIndex(ct, offset) ==
    (AdjustedTime(ct, offset) * (PaletteLength - 1)) \div ColorUnit

getCurrentSunsetColor(ct, offset) ==
    LET totalSegments == PaletteLength - 1
        segment == AdjustedTime(ct, offset) * totalSegments
        index == SegmentIndex(ct, offset)
        factor == segment - index * ColorUnit
        color1 == PaletteAt(index)
        color2 == PaletteAt(Min(index + 1, PaletteLength - 1))
    IN interpolateColor(color1, color2, factor, ColorUnit)

----------------------------------------------------------------------------
(* Particle *)

\* new Particle(), the generator in state r0, the canvas cw x ch px
Particle(r0, cw, ch) ==
    LET r1 == Draw(r0, 1)
        r2 == Draw(r0, 2)
        r3 == Draw(r0, 3)
        r4 == Draw(r0, 4)
        r5 == Draw(r0, 5)
        r6 == Draw(r0, 6)
        r7 == Draw(r0, 7)
        r8 == Draw(r0, 8)
        x0 == (r1 * cw * Scale) \div RandMod
        y0 == (r2 * ch * Scale) \div RandMod
    IN [x |-> x0,
        y |-> y0,
        size |-> 100 + (200 * r3) \div RandMod,            \* hundredths
        baseX |-> x0,
        baseY |-> y0,
        density |-> 1 + (30 * r4) \div RandMod,
        vx |-> (Scale * (2 * r5 - RandMod)) \div (4 * RandMod),
        vy |-> (Scale * (2 * r6 - RandMod)) \div (4 * RandMod),
        colorOffset |-> (3 * ColorUnit * r7) \div (10 * RandMod),
        pulsePhase |-> r8]

\* let maxDistance = 150 in Particle.update, in coordinate units
PointerRadius == 150 * Scale

\* Particle.update() had the boundary check used >= and <=
updateFlipsAtEdge(p, mx, my, cw, ch) ==
    LET dx == Sub(mx * Scale, p.x)
        dy == Sub(my * Scale, p.y)
        d2 == IF IsNaN(dx) \/ IsNaN(dy) THEN NaN ELSE dx * dx + dy * dy
        distance == IF IsNaN(d2) THEN NaN ELSE ISqrt(d2)
        direction(d) ==
            IF IsNaN(d2) \/ d2 = 0 THEN NaN
            ELSE Trunc(d * (PointerRadius - distance) * p.density * Scale,
                       distance * PointerRadius * 2)
        near == ~IsNaN(d2) /\ d2 < PointerRadius * PointerRadius
        nx == Add(p.x, p.vx)
        ny == Add(p.y, p.vy)
    IN IF near
       THEN [p EXCEPT !.x = Sub(p.x, direction(dx)),
                      !.y = Sub(p.y, direction(dy))]
       ELSE [p EXCEPT !.x = nx,
                      !.y = ny,
                      !.vx = IF ~Less(0, nx) \/ ~Less(nx, cw * Scale)
                             THEN -p.vx ELSE p.vx,
                      !.vy = IF ~Less(0, ny) \/ ~Less(ny, ch * Scale)
                             THEN -p.vy ELSE p.vy]

\* Particle.update(): mx, my the tracked pointer (px), cw x ch the canvas (px)
update(p, mx, my, cw, ch) ==
    LET dx == Sub(mx * Scale, p.x)
        dy == Sub(my * Scale, p.y)
        d2 == IF IsNaN(dx) \/ IsNaN(dy) THEN NaN ELSE dx * dx + dy * dy
        distance == IF IsNaN(d2) THEN NaN ELSE ISqrt(d2)
        \* dx / distance * ((maxDistance - distance) / maxDistance) * density * 0.5;
        \* 0 / 0 is NaN
        direction(d) ==
            IF IsNaN(d2) \/ d2 = 0 THEN NaN
            ELSE Trunc(d * (PointerRadius - distance) * p.density * Scale,
                       distance * PointerRadius * 2)
        near == ~IsNaN(d2) /\ d2 < PointerRadius * PointerRadius
        nx == Add(p.x, p.vx)
        ny == Add(p.y, p.vy)
    IN IF near
       THEN [p EXCEPT !.x = Sub(p.x, direction(dx)),
                      !.y = Sub(p.y, direction(dy))]
       ELSE [p EXCEPT !.x = nx,
                      !.y = ny,
                      !.vx = IF Less(nx, 0) \/ Less(cw * Scale, nx)
                             THEN -p.vx ELSE p.vx,
                      !.vy = IF Less(ny, 0) \/ Less(ch * Scale, ny)
                             THEN -p.vy ELSE p.vy]

\* Particle.draw(): the colour sampled, the palette segment read, the centre
\* of the disc and whether the glow disc is drawn (size > 1.5)
draw(p, ct) ==
    [x |-> p.x,
     y |-> p.y,
     index |-> SegmentIndex(ct, p.colorOffset),
     color |-> getCurrentSunsetColor(ct, p.colorOffset),
     glow |-> p.size > 150]

----------------------------------------------------------------------------
(* Particle field: sizing and connector pass *)

\* the sizing row with the mobile test first
SizingRowMobileFirst(reduced, mobile) ==
    IF mobile THEN [maxParticles |-> 40, densityFactor |-> 20000]
    ELSE IF reduced THEN [maxParticles |-> 20, densityFactor |-> 30000]
    ELSE [maxParticles |-> 100, densityFactor |-> 15000]

\* the (maxParticles, densityFactor) row init() selects
SizingRow(reduced, mobile) ==
    IF reduced THEN [maxParticles |-> 20, densityFactor |-> 30000]
    ELSE IF mobile THEN [maxParticles |-> 40, densityFactor |-> 20000]
    ELSE [maxParticles |-> 100, densityFactor |-> 15000]

\* the loop count had the limit been floored first
LoopCountFloor(area, densityFactor, maxParticles) ==
    Min(area \div densityFactor, maxParticles)

\* The number of times the body of
\*   for (let i = 0; i < Math.min(area / densityFactor, maxParticles); i++)
\* runs: the least i >= 0 that is not below the (fractional) limit.
LoopCount(area, densityFactor, maxParticles) ==
    IF area >= maxParticles * densityFactor THEN maxParticles
    ELSE (area + densityFactor - 1) \div densityFactor

\* n particles constructed one after the other, eight draws each
ParticlesFrom(r, n, cw, ch) ==
    [i \in 1..n |-> Particle(Draw(r, 8 * (i - 1)), cw, ch)]

\* init() had it reset the colour clock as well
initResetsClock(g) ==
    LET row == SizingRow(prefersReducedMotion, isMobile)
        n == LoopCount(g.canvasW * g.canvasH, row.densityFactor, row.maxParticles)
    IN [g EXCEPT !.particles = ParticlesFrom(g.rng, n, g.canvasW, g.canvasH),
                 !.rng = Draw(g.rng, 8 * n),
                 !.colorTime = 0]

\* init() without particles = []
initAppends(g) ==
    LET row == SizingRow(prefersReducedMotion, isMobile)
        n == LoopCount(g.canvasW * g.canvasH, row.densityFactor, row.maxParticles)
    IN [g EXCEPT !.particles = g.particles \o ParticlesFrom(g.rng, n, g.canvasW, g.canvasH),
                 !.rng = Draw(g.rng, 8 * n)]

\* init(), on the record g of the script's variables
init(g) ==
    LET row == SizingRow(prefersReducedMotion, isMobile)
        n == LoopCount(g.canvasW * g.canvasH, row.densityFactor, row.maxParticles)
    IN [g EXCEPT !.particles = ParticlesFrom(g.rng, n, g.canvasW, g.canvasH),
                 !.rng = Draw(g.rng, 8 * n)]

\* resizeCanvas(): assigning canvas.width clears the canvas
resizeCanvas(g, w, h) ==
    [g EXCEPT !.canvasW = w, !.canvasH = h, !.discs = <<>>, !.lines = <<>>]

\* the connection distance without the mobile case
ConnectDistanceFixed(mobile) == 120 * Scale

\* const maxDistance = isMobile ? 100 : 120, in coordinate units
ConnectDistance(mobile) == (IF mobile THEN 100 ELSE 120) * Scale

RECURSIVE PairsBetween(_, _, _)
\* the (a, b) the two loops of connectParticles visit, in order, for the outer
\* index a in lo..hi (indices from 1), n the number of particles
PairsBetween(lo, hi, n) ==
    IF lo > hi THEN <<>>
    ELSE IF lo = hi THEN [j \in 1..(n - lo) |-> <<lo, lo + j>>]
    ELSE LET mid == (lo + hi) \div 2
         IN PairsBetween(lo, mid, n) \o PairsBetween(mid + 1, hi, n)

\* distanceSquared of particles a and b
DistanceSquared(ps, a, b) ==
    LET dx == Sub(ps[a].x, ps[b].x)
        dy == Sub(ps[a].y, ps[b].y)
    IN IF IsNaN(dx) \/ IsNaN(dy) THEN NaN ELSE dx * dx + dy * dy

\* if (distanceSquared > maxDistanceSquared) continue;
Skipped(d2, maxDistance) == Less(maxDistance * maxDistance, d2)

\* the line stroked for a pair that is not skipped; opacity in millionths
Line(ps, ct, pair, maxDistance) ==
    LET a == pair[1]
        b == pair[2]
        distance == ISqrt(DistanceSquared(ps, a, b))
        colorA == getCurrentSunsetColor(ct, ps[a].colorOffset)
        colorB == getCurrentSunsetColor(ct, ps[b].colorOffset)
    IN [a |-> a,
        b |-> b,
        opacity |-> ((maxDistance - distance) * 1000000) \div maxDistance,
        color |-> interpolateColor(colorA, colorB, 1, 2)]

\* connectParticles(): the pairs looked at and the lines stroked. A pair with a
\* NaN coordinate is not skipped, but the canvas ignores its path.
connectParticles(ps, ct) ==
    LET maxDistance == ConnectDistance(isMobile)
        pairs == PairsBetween(1, Len(ps), Len(ps))
        stroked(pair) ==
            LET d2 == DistanceSquared(ps, pair[1], pair[2])
            IN ~IsNaN(d2) /\ ~Skipped(d2, maxDistance)
        kept == SelectSeq(pairs, stroked)
    IN [examined |-> pairs,
        lines |-> [k \in DOMAIN kept |-> Line(ps, ct, kept[k], maxDistance)]]

----------------------------------------------------------------------------
(* Animation lifecycle, on the record g of the script's variables *)

\* let animationId; (undefined until the first frame is requested)
Undefined == 0
\* animationId = null
Null == -1
\* if (animationId): a handle of requestAnimationFrame is a positive integer
Truthy(id) == id > 0

\* let mouseTrackingEnabled = true (never assigned again)
mouseTrackingEnabled == TRUE

\* the script's mutable variables, the canvas and the browser's frame requests
Cur ==
    [isPageVisible |-> isPageVisible,
     isCanvasVisible |-> isCanvasVisible,
     isAnimating |-> isAnimating,
     animationId |-> animationId,
     pending |-> pending,
     nextId |-> nextId,
     colorTime |-> colorTime,
     particles |-> particles,
     mouseX |-> mouseX,
     mouseY |-> mouseY,
     canvasW |-> canvasW,
     canvasH |-> canvasH,
     rng |-> rng,
     discs |-> discs,
     examined |-> examined,
     lines |-> lines]

\* animate()
animate(g) ==
    IF ~g.isPageVisible \/ ~g.isCanvasVisible
    THEN [g EXCEPT !.isAnimating = FALSE]
    ELSE LET ct == (g.colorTime + ColorIncrement) % ColorUnit
             ps == [i \in DOMAIN g.particles |->
                       update(g.particles[i], g.mouseX, g.mouseY,
                              g.canvasW, g.canvasH)]
             conn == connectParticles(ps, ct)
         IN [g EXCEPT !.isAnimating = TRUE,
                      !.colorTime = ct,
                      !.particles = ps,
                      !.discs = [i \in DOMAIN ps |-> draw(ps[i], ct)],
                      !.examined = conn.examined,
                      !.lines = conn.lines,
                      !.animationId = g.nextId,
                      !.pending = g.pending \cup {g.nextId},
                      !.nextId = g.nextId + 1]

\* startAnimation() without the test of isAnimating
startAnimationUnguarded(g) ==
    IF g.isPageVisible /\ g.isCanvasVisible THEN animate(g) ELSE g

\* startAnimation()
startAnimation(g) ==
    IF ~g.isAnimating /\ g.isPageVisible /\ g.isCanvasVisible
    THEN animate(g)
    ELSE g

\* stopAnimation() without cancelAnimationFrame
stopAnimationNoCancel(g) ==
    [g EXCEPT !.animationId = IF Truthy(g.animationId) THEN Null ELSE @,
              !.isAnimating = FALSE]

\* stopAnimation() without isAnimating = false
stopAnimationKeepsFlag(g) ==
    IF Truthy(g.animationId)
    THEN [g EXCEPT !.pending = g.pending \ {g.animationId}, !.animationId = Null]
    ELSE g

\* stopAnimation()
stopAnimation(g) ==
    LET g1 == IF Truthy(g.animationId)
              THEN [g EXCEPT !.pending = g.pending \ {g.animationId},
                             !.animationId = Null]
              ELSE g
    IN [g1 EXCEPT !.isAnimating = FALSE]

\* the visibilitychange listener; h is document.hidden
visibilitychange(g, h) ==
    LET g1 == [g EXCEPT !.isPageVisible = ~h]
    IN IF g1.isPageVisible /\ g1.isCanvasVisible
       THEN startAnimation(g1)
       ELSE stopAnimation(g1)

\* the observer's entry handler without the else branch
observeEntryNoStop(g, isIntersecting) ==
    LET g1 == [g EXCEPT !.isCanvasVisible = isIntersecting]
    IN IF g1.isCanvasVisible /\ g1.isPageVisible THEN startAnimation(g1) ELSE g1

\* the body of canvasObserver's entries.forEach for one entry
observeEntry(g, isIntersecting) ==
    LET g1 == [g EXCEPT !.isCanvasVisible = isIntersecting]
    IN IF g1.isCanvasVisible /\ g1.isPageVisible
       THEN startAnimation(g1)
       ELSE stopAnimation(g1)

RECURSIVE observeEntries(_, _)
\* canvasObserver's callback on the entries delivered
observeEntries(g, entries) ==
    IF entries = <<>> THEN g
    ELSE observeEntries(observeEntry(g, Head(entries)), Tail(entries))

\* handleMouseMove(e), e.clientX = x, e.clientY = y
handleMouseMove(g, x, y) ==
    IF mouseTrackingEnabled /\ g.isAnimating
    THEN [g EXCEPT !.mouseX = x, !.mouseY = y]
    ELSE g

\* handleTouchMove(e) without the test of isAnimating
handleTouchMoveUngated(g, x, y) ==
    IF mouseTrackingEnabled THEN [g EXCEPT !.mouseX = x, !.mouseY = y] ELSE g

\* handleTouchMove(e), e.touches[0] at (x, y)
handleTouchMove(g, x, y) ==
    IF mouseTrackingEnabled /\ g.isAnimating
    THEN [g EXCEPT !.mouseX = x, !.mouseY = y]
    ELSE g

----------------------------------------------------------------------------
(* Events *)

\* the handler leaves the script's variables as in g; no handle beyond
\* MaxId + 1 is handed out
Set(g) ==
    /\ g.nextId <= MaxId + 1
    /\ isPageVisible' = g.isPageVisible
    /\ isCanvasVisible' = g.isCanvasVisible
    /\ isAnimating' = g.isAnimating
    /\ animationId' = g.animationId
    /\ pending' = g.pending
    /\ nextId' = g.nextId
    /\ colorTime' = g.colorTime
    /\ particles' = g.particles
    /\ mouseX' = g.mouseX
    /\ mouseY' = g.mouseY
    /\ canvasW' = g.canvasW
    /\ canvasH' = g.canvasH
    /\ rng' = g.rng
    /\ discs' = g.discs
    /\ examined' = g.examined
    /\ lines' = g.lines

\* what is recorded of the handler that ran
Note(event, call, was) ==
    /\ lastEvent' = event
    /\ lastCall' = call
    /\ wasAnimating' = was

\* the lifecycle function the visibility handlers call for these signals
CallFor(page, canvas) ==
    IF page /\ canvas THEN "startAnimation" ELSE "stopAnimation"

Seeds == 0..MaxSeed

\* setTimeout(callback, delay) at time t, returning handle id
Timer(id, kind, t, delay) ==
    [id |-> id, kind |-> kind, setAt |-> t, due |-> t + delay]

\* setTimeout(scheduleSunbeam, 5000), the first timer the script sets
SunbeamStartTimer == Timer(1, "sunbeamStart", 0, 5000)

\* the values at the declarations, before "Initialize" runs
InitWith(sizes) ==
    /\ phase = "load"
    /\ hidden \in BOOLEAN
    /\ \E s \in sizes : winW = s[1] /\ winH = s[2]
    /\ \E ua \in BOOLEAN : isMobile = (ua \/ winW < 768)
    /\ prefersReducedMotion \in BOOLEAN
    /\ rng \in Seeds
    /\ canvasW = 300
    /\ canvasH = 150
    /\ particles = <<>>
    /\ mouseX = 0
    /\ mouseY = 0
    /\ animationId = Undefined
    /\ colorTime = 0
    /\ isPageVisible = ~hidden
    /\ isCanvasVisible = TRUE
    /\ isAnimating = FALSE
    /\ pending = {}
    /\ nextId = 1
    /\ resizeTimer = FALSE
    /\ discs = <<>>
    /\ examined = <<>>
    /\ lines = <<>>
    /\ lastEvent = "none"
    /\ lastCall = "none"
    /\ wasAnimating = FALSE
    /\ pointerAccepted = FALSE
    /\ now = 0
    /\ timers = {}
    /\ nextTimer = 1
    /\ resizeTimeout = Undefined
    /\ lastResizeAt = -1
    /\ bursts = 0
    /\ rebuilds = 0
    /\ sunbeamActive = FALSE
    /\ lastFlashAt = -1
    /\ inThrottle = FALSE
    /\ scrollY = 0
    /\ navScrolled = FALSE

Init == InitWith(WindowSizes)

\* resizeCanvas(); init(); startAnimation();
Startup ==
    /\ phase = "load"
    /\ phase' = "live"
    /\ Set(startAnimation(init(resizeCanvas(Cur, winW, winH))))
    /\ Note("startup", "startAnimation", FALSE)
    /\ timers' = {SunbeamStartTimer}
    /\ nextTimer' = 2
    /\ UNCHANGED <<hidden, winW, winH, isMobile, prefersReducedMotion, resizeTimer,
                   pointerAccepted, now, resizeVars, sunbeamVars, scrollVars>>

\* document.hidden changes and the visibilitychange listener runs
VisibilityChange ==
    /\ phase # "load"
    /\ hidden' = ~hidden
    /\ Set(visibilitychange(Cur, hidden'))
    /\ Note("visibilitychange", CallFor(~hidden', isCanvasVisible), isAnimating)
    /\ UNCHANGED <<phase, winW, winH, isMobile, prefersReducedMotion, resizeTimer>>
    /\ UNCHANGED <<pointerAccepted, timerVars, resizeVars, sunbeamVars, scrollVars>>

\* canvasObserver delivers entries (until it is disconnected)
Intersection(entries) ==
    /\ phase = "live"
    /\ LET n == Len(entries)
           before == observeEntries(Cur, SubSeq(entries, 1, n - 1))
       IN /\ Set(observeEntry(before, entries[n]))
          /\ Note("intersection", CallFor(isPageVisible, entries[n]),
                  before.isAnimating)
    /\ UNCHANGED <<phase, hidden, winW, winH, isMobile, prefersReducedMotion,
                   resizeTimer>>
    /\ UNCHANGED <<pointerAccepted, timerVars, resizeVars, sunbeamVars, scrollVars>>

\* the beforeunload listener: stopAnimation(); canvasObserver.disconnect();
BeforeUnload ==
    /\ phase # "load"
    /\ phase' = "unloading"
    /\ Set(stopAnimation(Cur))
    /\ Note("beforeunload", "stopAnimation", isAnimating)
    /\ UNCHANGED <<hidden, winW, winH, isMobile, prefersReducedMotion, resizeTimer>>
    /\ UNCHANGED <<pointerAccepted, timerVars, resizeVars, sunbeamVars, scrollVars>>

\* the browser runs the frame callback requested under handle id
Frame(id) ==
    /\ id \in pending
    /\ Set(animate([Cur EXCEPT !.pending = pending \ {id}]))
    /\ Note("frame", "animate", isAnimating)
    /\ UNCHANGED <<phase, hidden, winW, winH, isMobile, prefersReducedMotion,
                   resizeTimer>>
    /\ UNCHANGED <<pointerAccepted, timerVars, resizeVars, sunbeamVars, scrollVars>>

MouseMove(x, y) ==
    /\ phase # "load"
    /\ Set(handleMouseMove(Cur, x, y))
    /\ Note("mousemove", "none", isAnimating)
    /\ pointerAccepted' = (pointerAccepted \/ (mouseTrackingEnabled /\ isAnimating))
    /\ UNCHANGED <<phase, hidden, winW, winH, isMobile, prefersReducedMotion,
                   resizeTimer>>
    /\ UNCHANGED <<timerVars, resizeVars, sunbeamVars, scrollVars>>

TouchMove(x, y) ==
    /\ phase # "load"
    /\ Set(handleTouchMove(Cur, x, y))
    /\ Note("touchmove", "none", isAnimating)
    /\ pointerAccepted' = (pointerAccepted \/ (mouseTrackingEnabled /\ isAnimating))
    /\ UNCHANGED <<phase, hidden, winW, winH, isMobile, prefersReducedMotion,
                   resizeTimer>>
    /\ UNCHANGED <<timerVars, resizeVars, sunbeamVars, scrollVars>>

\* the window is resized to w x h: clearTimeout(resizeTimeout); setTimeout(..., 250)
\* (without the clock: the timer fires at some later step; ResizeAt has the clock)
Resize(w, h) ==
    /\ phase # "load"
    /\ <<w, h>> # <<winW, winH>>
    /\ winW' = w
    /\ winH' = h
    /\ resizeTimer' = TRUE
    /\ Set(Cur)
    /\ Note("resize", "none", isAnimating)
    /\ UNCHANGED <<phase, hidden, isMobile, prefersReducedMotion>>
    /\ UNCHANGED <<pointerAccepted, timerVars, resizeVars, sunbeamVars, scrollVars>>

\* the resize timer fires: resizeCanvas(); init(); Math.random is in state seed
ResizeTimeout(seed) ==
    /\ resizeTimer
    /\ resizeTimer' = FALSE
    /\ Set(init(resizeCanvas([Cur EXCEPT !.rng = seed], winW, winH)))
    /\ Note("rebuild", "none", isAnimating)
    /\ UNCHANGED <<phase, hidden, winW, winH, isMobile, prefersReducedMotion>>
    /\ UNCHANGED <<pointerAccepted, timerVars, resizeVars, sunbeamVars, scrollVars>>

\* the sequences of 1..MaxEntries intersection flags
EntryLists ==
    UNION { [1..n -> BOOLEAN] : n \in 1..MaxEntries }

Next ==
    \/ Startup
    \/ VisibilityChange
    \/ \E entries \in EntryLists : Intersection(entries)
    \/ BeforeUnload
    \/ \E id \in pending : Frame(id)
    \/ \E p \in PointerPositions : MouseMove(p[1], p[2])
    \/ \E p \in PointerPositions : TouchMove(p[1], p[2])
    \/ \E s \in WindowSizes : Resize(s[1], s[2])
    \/ \E seed \in Seeds : ResizeTimeout(seed)

Spec == Init /\ [][Next]_vars

----------------------------------------------------------------------------
(* Timers: setTimeout callbacks run at their due time, earliest first *)

\* the pending timers of the kinds given
Pending(kinds) == { t \in timers : t.kind \in kinds }

\* timer t is due and no pending timer comes before it
Fires(t) ==
    /\ t \in timers
    /\ t.due <= now
    /\ \A u \in timers : u.due > t.due \/ (u.due = t.due /\ u.id >= t.id)

\* no callback is waiting to run: events are handled after the due timers
NoTimerDue == \A t \in timers : t.due > now

\* d ms pass after the script has run, no timer becoming overdue
TimePasses(d) ==
    /\ phase # "load"
    /\ d > 0
    /\ \A t \in timers : now + d <= t.due
    /\ now' = now + d
    /\ Note("time", "none", isAnimating)
    /\ UNCHANGED <<loopVars, windowVars, rng, timers, nextTimer, resizeVars,
                   sunbeamVars, scrollVars>>

\* time passes until the next timer is due
AdvanceToDue ==
    /\ timers # {}
    /\ \E t \in timers : (\A u \in timers : u.due >= t.due) /\ TimePasses(t.due - now)

----------------------------------------------------------------------------
(* The sunbeam flash chain *)

\* the delay without the 15000 ms base
SunbeamDelayFromZero(r) == (30000 * r) \div RandMod

\* const delay = 15000 + Math.random() * 30000, Math.random() being r / RandMod
SunbeamDelay(r) == 15000 + (30000 * r) \div RandMod

\* scheduleSunbeam() at time t: the timers after it, setTimeout returning id
scheduleSunbeam(ts, id, t, r) ==
    ts \cup {Timer(id, "sunbeam", t, SunbeamDelay(r))}

\* triggerSunbeam() at time t: the timers after it, setTimeout returning id
\* (the class 'active' is removed and added again: it is on afterwards)
triggerSunbeam(ts, id, t) ==
    ts \cup {Timer(id, "sunbeamClear", t, 3000)}

\* draws of Math.random for the delay: the least, the middle and the greatest
DelayDraws == {0, RandMod \div 2, RandMod - 1}

\* the timer set at load fires: scheduleSunbeam()
SunbeamStartFires(t, r) ==
    /\ t.kind = "sunbeamStart"
    /\ Fires(t)
    /\ nextTimer <= MaxTimers
    /\ timers' = scheduleSunbeam(timers \ {t}, nextTimer, now, r)
    /\ nextTimer' = nextTimer + 1
    /\ rng' = r
    /\ Note("sunbeamStart", "none", isAnimating)
    /\ UNCHANGED <<loopVars, windowVars, now, resizeVars, sunbeamVars, scrollVars>>

\* the timer of scheduleSunbeam fires: triggerSunbeam(); scheduleSunbeam();
SunbeamFires(t, r) ==
    /\ t.kind = "sunbeam"
    /\ Fires(t)
    /\ nextTimer + 1 <= MaxTimers
    /\ timers' = scheduleSunbeam(triggerSunbeam(timers \ {t}, nextTimer, now),
                                 nextTimer + 1, now, r)
    /\ nextTimer' = nextTimer + 2
    /\ sunbeamActive' = TRUE
    /\ lastFlashAt' = now
    /\ rng' = r
    /\ Note("sunbeam", "none", isAnimating)
    /\ UNCHANGED <<loopVars, windowVars, now, resizeVars, scrollVars>>

\* the timer of triggerSunbeam fires: sunbeam.classList.remove('active')
SunbeamClearFires(t) ==
    /\ t.kind = "sunbeamClear"
    /\ Fires(t)
    /\ timers' = timers \ {t}
    /\ sunbeamActive' = FALSE
    /\ Note("sunbeamClear", "none", isAnimating)
    /\ UNCHANGED <<loopVars, windowVars, rng, now, nextTimer, resizeVars,
                   lastFlashAt, scrollVars>>

\* the window of the timer specifications: one particle
TimerWindows == { <<400, 30>> }

InitSunbeam == InitWith(TimerWindows)

NextSunbeam ==
    \/ Startup
    \/ VisibilityChange
    \/ AdvanceToDue
    \/ \E t \in timers, r \in DelayDraws : SunbeamStartFires(t, r)
    \/ \E t \in timers, r \in DelayDraws : SunbeamFires(t, r)
    \/ \E t \in timers : SunbeamClearFires(t)

SpecSunbeam == InitSunbeam /\ [][NextSunbeam]_vars

----------------------------------------------------------------------------
(* The resize listener with its timer *)

\* the delay of the resize timer (ms)
ResizeDelay == 250

\* clearTimeout had it no effect
clearTimeoutKeeps(ts, id) == ts

\* clearTimeout(id): the timers after it
clearTimeout(ts, id) == { t \in ts : t.id # id }

\* a resize event follows the one before it by ResizeDelay or more, or is the first
BeginsBurst == lastResizeAt < 0 \/ now - lastResizeAt >= ResizeDelay

\* the window is resized to w x h at time now:
\* clearTimeout(resizeTimeout); resizeTimeout = setTimeout(..., 250)
ResizeAt(w, h) ==
    /\ phase # "load"
    /\ NoTimerDue
    /\ nextTimer <= MaxTimers
    /\ <<w, h>> # <<winW, winH>>
    /\ winW' = w
    /\ winH' = h
    /\ timers' = clearTimeout(timers, resizeTimeout)
                     \cup {Timer(nextTimer, "resize", now, ResizeDelay)}
    /\ resizeTimeout' = nextTimer
    /\ nextTimer' = nextTimer + 1
    /\ resizeTimer' = TRUE
    /\ lastResizeAt' = now
    /\ bursts' = IF BeginsBurst THEN bursts + 1 ELSE bursts
    /\ Set(Cur)
    /\ Note("resize", "none", isAnimating)
    /\ UNCHANGED <<phase, hidden, isMobile, prefersReducedMotion, pointerAccepted,
                   now, rebuilds, sunbeamVars, scrollVars>>

\* the resize timer fires: resizeCanvas(); init(); Math.random is in state seed
ResizeTimerFires(t, seed) ==
    /\ t.kind = "resize"
    /\ Fires(t)
    /\ timers' = timers \ {t}
    /\ resizeTimer' = FALSE
    /\ rebuilds' = rebuilds + 1
    /\ Set(init(resizeCanvas([Cur EXCEPT !.rng = seed], winW, winH)))
    /\ Note("rebuild", "none", isAnimating)
    /\ UNCHANGED <<phase, hidden, winW, winH, isMobile, prefersReducedMotion,
                   pointerAccepted, now, nextTimer, resizeTimeout, lastResizeAt,
                   bursts, sunbeamVars, scrollVars>>

\* the times (ms) that pass between the steps of the resize specification
ResizeSteps == {125, 250}

InitResize == InitWith(WindowSizes)

NextResize ==
    \/ Startup
    \/ \E s \in WindowSizes : ResizeAt(s[1], s[2])
    \/ \E t \in timers, seed \in Seeds : ResizeTimerFires(t, seed)
    \/ \E d \in ResizeSteps : TimePasses(d)

SpecResize == InitResize /\ [][NextResize]_vars

----------------------------------------------------------------------------
(* The scroll listener: handleScroll behind throttle(func, 16) *)

\* the limit of the throttle (ms)
ThrottleLimit == 16

\* the callback given to throttle: whether nav has 'scrolled' after it
NavScrolledAt(y) == y > 50

\* a scroll event, window.scrollY having become y: the function throttle returns
Scroll(y) ==
    /\ phase # "load"
    /\ NoTimerDue
    /\ y # scrollY
    /\ scrollY' = y
    /\ IF ~inThrottle
       THEN /\ nextTimer <= MaxTimers
            /\ navScrolled' = NavScrolledAt(y)
            /\ inThrottle' = TRUE
            /\ timers' = timers \cup {Timer(nextTimer, "throttle", now, ThrottleLimit)}
            /\ nextTimer' = nextTimer + 1
       ELSE UNCHANGED <<navScrolled, inThrottle, timers, nextTimer>>
    /\ Note("scroll", "none", isAnimating)
    /\ UNCHANGED <<loopVars, windowVars, rng, now, resizeVars, sunbeamVars>>

\* the timer of the throttle fires: inThrottle = false
ThrottleFires(t) ==
    /\ t.kind = "throttle"
    /\ Fires(t)
    /\ timers' = timers \ {t}
    /\ inThrottle' = FALSE
    /\ Note("throttle", "none", isAnimating)
    /\ UNCHANGED <<loopVars, windowVars, rng, now, nextTimer, resizeVars,
                   sunbeamVars, scrollY, navScrolled>>

\* values of window.scrollY (px), on both sides of 50
ScrollPositions == {0, 50, 51}

\* the times (ms) that pass between the steps of the scroll specification
ScrollSteps == {8, 16}

InitScroll == InitWith(TimerWindows)

NextScroll ==
    \/ Startup
    \/ \E y \in ScrollPositions : Scroll(y)
    \/ \E t \in timers : ThrottleFires(t)
    \/ \E d \in ScrollSteps : TimePasses(d)

SpecScroll == InitScroll /\ [][NextScroll]_vars

----------------------------------------------------------------------------
(* Lifecycle properties *)

\* Running: isAnimating and a frame of the loop is pending
Running(g) == g.isAnimating /\ g.pending # {}
\* Stopped: not animating and no frame pending
Stopped(g) == ~g.isAnimating /\ g.pending = {}

PointerEvents == {"mousemove", "touchmove"}

\* C1: at most one frame request of the loop is pending in every reachable
\* state, and a second startAnimation() right after a first changes nothing:
\* it leaves the single request of the first.
C1_AtMostOneFrame ==
    /\ Cardinality(pending) <= 1
    /\ LET once == startAnimation(Cur)
           twice == startAnimation(once)
       IN /\ twice = once
          /\ Cardinality(twice.pending) <= 1
          /\ (isPageVisible /\ isCanvasVisible) => Cardinality(twice.pending) = 1

\* startAnimation() was called while the loop was running, and one request is pending
C1_Witness ==
    lastCall = "startAnimation" /\ wasAnimating /\ Cardinality(pending) = 1

\* C2: between the handlers, from the end of initialization until beforeunload
\* runs, the loop is Running exactly when isPageVisible and isCanvasVisible are
\* both true; animate() with a signal false does nothing but clear isAnimating;
\* and a frame callback that runs the frame body (it advances colorTime) runs
\* with both signals true.
C2_RunningIffVisible ==
    /\ [](phase = "live" => (Running(Cur) <=> (isPageVisible /\ isCanvasVisible)))
    /\ [](phase = "live" => (isAnimating <=> pending # {}))
    /\ [](~(isPageVisible /\ isCanvasVisible) =>
             animate(Cur) = [Cur EXCEPT !.isAnimating = FALSE])
    /\ [][(lastEvent' = "frame" /\ colorTime' # colorTime) =>
             (isPageVisible /\ isCanvasVisible)]_vars

\* a signal turned false stopped a running loop
C2_Witness ==
    /\ phase = "live"
    /\ lastCall = "stopAnimation"
    /\ wasAnimating
    /\ Stopped(Cur)
    /\ ~(isPageVisible /\ isCanvasVisible)

\* C3: after stopAnimation() no frame is pending and isAnimating is false, and
\* when the loop is already Stopped stopAnimation() changes nothing.
C3_StopCancels ==
    /\ LET g == stopAnimation(Cur)
       IN /\ g.pending = {}
          /\ ~g.isAnimating
          /\ Stopped(Cur) => g = Cur
    /\ lastCall = "stopAnimation" => Stopped(Cur)

\* stopAnimation() was called when an earlier call had already stopped the loop
C3_Witness ==
    lastCall = "stopAnimation" /\ ~wasAnimating /\ animationId = Null

\* C4: from Running with the canvas visible, hiding the page stops the loop and
\* cancels its request; showing it again starts the loop once (one frame body)
\* and leaves exactly one request, which is not the one pending before.
C4_HideShowRestartsOnce ==
    (Running(Cur) /\ isPageVisible /\ isCanvasVisible) =>
        LET hid == visibilitychange(Cur, TRUE)
            shown == visibilitychange(hid, FALSE)
        IN /\ Stopped(hid)
           /\ hid.colorTime = colorTime
           /\ Running(shown)
           /\ Cardinality(shown.pending) = 1
           /\ shown.pending \cap pending = {}
           /\ shown.colorTime = (colorTime + ColorIncrement) % ColorUnit
           /\ shown.nextId = nextId + 1

\* the page became visible again and the loop restarted, a loop having run before
C4_Witness ==
    /\ lastEvent = "visibilitychange"
    /\ lastCall = "startAnimation"
    /\ ~wasAnimating
    /\ isCanvasVisible
    /\ Running(Cur)
    /\ Cardinality(pending) = 1
    /\ animationId > 1

\* C5: a pointer event changes only mouseX and mouseY, and only while the loop
\* is Running; nothing else changes the pointer position.
C5_PointerGated ==
    [][ /\ lastEvent' \in PointerEvents =>
             /\ UNCHANGED <<isAnimating, animationId, pending, nextId, colorTime,
                            particles, isPageVisible, isCanvasVisible, discs,
                            examined, lines, canvasW, canvasH, phase>>
             /\ ~Running(Cur) => UNCHANGED <<mouseX, mouseY>>
        /\ <<mouseX, mouseY>>' # <<mouseX, mouseY>> =>
             /\ Running(Cur)
             /\ lastEvent' \in PointerEvents ]_vars

\* a touch arrived while the loop was stopped, after a position had been accepted
C5_Witness ==
    lastEvent = "touchmove" /\ ~wasAnimating /\ ~isAnimating /\ mouseX # 0

----------------------------------------------------------------------------
(* Sizing: init() at startup and at each rebuild, on realistic window sizes *)

InitSizing == InitWith(SizingWindows)

NextSizing ==
    \/ Startup
    \/ \E s \in SizingWindows : Resize(s[1], s[2])
    \/ \E seed \in Seeds : ResizeTimeout(seed)

SpecSizing == InitSizing /\ [][NextSizing]_vars

\* the profile of the sizing table: "reduced", "mobile" or "full"
Profile ==
    IF prefersReducedMotion THEN "reduced"
    ELSE IF isMobile THEN "mobile" ELSE "full"

MaxParticlesOf(profile) ==
    CASE profile = "reduced" -> 20
      [] profile = "mobile" -> 40
      [] profile = "full" -> 100

DensityFactorOf(profile) ==
    CASE profile = "reduced" -> 30000
      [] profile = "mobile" -> 20000
      [] profile = "full" -> 15000

\* n = min(ceil(area / densityFactor), maxParticles)
IsCeilCount(n, area, densityFactor, maxParticles) ==
    /\ n \in 0..maxParticles
    /\ n < maxParticles => n * densityFactor >= area
    /\ n > 0 => (n - 1) * densityFactor < area

\* C6 as claimed: once init() has run, the number of particles is
\* min(floor(area / densityFactor), maxParticles) for the canvas area and the
\* profile: 66 for area 1,000,000 and 52 for 1024 x 768, full profile.
C6_FloorCount ==
    phase # "load" =>
        /\ Len(particles) =
               Min((canvasW * canvasH) \div DensityFactorOf(Profile),
                   MaxParticlesOf(Profile))
        /\ (Profile = "full" /\ canvasW * canvasH = 1000000) => Len(particles) = 66
        /\ (Profile = "full" /\ canvasW = 1024 /\ canvasH = 768) => Len(particles) = 52

\* C6 amended: once init() has run, the number of particles is
\* min(ceil(area / densityFactor), maxParticles), the same for every state of
\* Math.random: 67 for area 1,000,000 and 53 for 1024 x 768, full profile.
C6_CeilCount ==
    phase # "load" =>
        /\ IsCeilCount(Len(particles), canvasW * canvasH,
                       DensityFactorOf(Profile), MaxParticlesOf(Profile))
        /\ (Profile = "full" /\ canvasW * canvasH = 1000000) => Len(particles) = 67
        /\ (Profile = "full" /\ canvasW = 1024 /\ canvasH = 768) => Len(particles) = 53

\* init() has run on a 1024 x 768 canvas with the full profile, after a rebuild
C6_Witness ==
    /\ lastEvent = "rebuild"
    /\ Profile = "full"
    /\ canvasW = 1024
    /\ canvasH = 768
    /\ Len(particles) = 53

\* C7: once init() has run the particle count is at most the profile's
\* maxParticles (full 100, mobile 40, reduced motion 20); with reduced motion,
\* mobile or not, the count is that of the row (30000, 20), so at most 20.
C7_CountCapped ==
    phase # "load" =>
        /\ ~prefersReducedMotion /\ ~isMobile => Len(particles) <= 100
        /\ ~prefersReducedMotion /\ isMobile => Len(particles) <= 40
        /\ prefersReducedMotion =>
              /\ Len(particles) <= 20
              /\ IsCeilCount(Len(particles), canvasW * canvasH, 30000, 20)

\* reduced motion on a mobile device, the canvas large enough for the cap to bind
C7_Witness ==
    /\ phase # "load"
    /\ prefersReducedMotion
    /\ isMobile
    /\ canvasW * canvasH > 20 * 30000
    /\ Len(particles) = 20

----------------------------------------------------------------------------
(* Running states of the loop, for the colour cycle and the connector pass *)

\* the loop running on a w x h canvas with particles ps, colorTime ct, one
\* frame requested, no pointer position accepted yet
RunningWith(w, h, ps, ct) ==
    /\ phase = "live"
    /\ hidden = FALSE
    /\ winW = w
    /\ winH = h
    /\ \E ua \in BOOLEAN : isMobile = (ua \/ w < 768)
    /\ prefersReducedMotion \in BOOLEAN
    /\ canvasW = w
    /\ canvasH = h
    /\ particles = ps
    /\ mouseX = 0
    /\ mouseY = 0
    /\ animationId = 1
    /\ colorTime = ct
    /\ isPageVisible = TRUE
    /\ isCanvasVisible = TRUE
    /\ isAnimating = TRUE
    /\ pending = {1}
    /\ nextId = 2
    /\ resizeTimer = FALSE
    /\ discs = <<>>
    /\ examined = <<>>
    /\ lines = <<>>
    /\ lastEvent = "rebuild"
    /\ lastCall = "none"
    /\ wasAnimating = TRUE
    /\ pointerAccepted = FALSE
    /\ now = 0
    /\ timers = {SunbeamStartTimer}
    /\ nextTimer = 2
    /\ resizeTimeout = Undefined
    /\ lastResizeAt = -1
    /\ bursts = 0
    /\ rebuilds = 0
    /\ sunbeamActive = FALSE
    /\ lastFlashAt = -1
    /\ inThrottle = FALSE
    /\ scrollY = 0
    /\ navScrolled = FALSE

\* the values colorTime takes: the multiples of the increment below one cycle
ClockValues == { ColorIncrement * k : k \in 0..((ColorUnit \div ColorIncrement) - 1) }

\* draws of Math.random for colorOffset: every phase of the cycle is sampled
\* with some clock value, and the largest offset is among them
OffsetDraws == (0..7) \cup {19, RandMod - 1}

\* the colour cycle: any clock value, one particle (a 100 x 100 canvas) with
\* any of the offsets, then frames
InitColor ==
    \E ct \in ClockValues, r \in OffsetDraws :
        /\ rng = 8
        /\ RunningWith(100, 100,
               <<[Particle(0, 100, 100) EXCEPT
                     !.colorOffset = (3 * ColorUnit * r) \div (10 * RandMod)]>>,
               ct)

NextColor == \E id \in pending : Frame(id)

SpecColor == InitColor /\ [][NextColor]_vars

\* the connector pass: a canvas of two or three particles, each resting at one
\* of the points below (on one horizontal line, at 15 px), then frames
ConnectWindows == { <<800, 30>>, <<800, 50>> }

\* x of the points (px): pairs at distance 0, 100, 101, 120 and 121 px occur
ConnectXs == { 400, 500, 501, 520, 521 }

InitConnect ==
    \E s \in ConnectWindows :
        /\ rng = 0
        /\ prefersReducedMotion \in BOOLEAN
        /\ \E ua \in BOOLEAN : isMobile = (ua \/ s[1] < 768)
        /\ LET row == SizingRow(prefersReducedMotion, isMobile)
               n == LoopCount(s[1] * s[2], row.densityFactor, row.maxParticles)
           IN \E xs \in [1..n -> ConnectXs] :
                 RunningWith(s[1], s[2],
                     [i \in 1..n |->
                         [Particle(Draw(0, 8 * (i - 1)), s[1], s[2]) EXCEPT
                             !.x = xs[i] * Scale, !.y = 15 * Scale,
                             !.vx = 0, !.vy = 0]],
                     0)

NextConnect == \E id \in pending : Frame(id)

SpecConnect == InitConnect /\ [][NextConnect]_vars

\* one particle: a 400 x 30 canvas holds one particle under every profile.
\* It starts where and as fast as the constructor can put it (x, y, vx, vy in
\* coordinate units): one step inside each edge and heading for it, near the
\* canvas origin, next to the left edge at rest, and at rest on a whole pixel.
ParticleStarts ==
    { <<400 * Scale - 1, 15 * Scale, 1, 0>>,
      <<1, 15 * Scale, -1, 0>>,
      <<300 * Scale, 30 * Scale - 1, 0, 1>>,
      <<300 * Scale, 1, 0, -1>>,
      <<100 * Scale, 15 * Scale, 1, 1>>,
      <<1 * Scale, 15 * Scale, 0, 0>>,
      <<200 * Scale, 15 * Scale, 0, 0>> }

\* pointer positions (px): on the resting particle, right of the left edge,
\* and in the far corner
ParticlePointers == { <<200, 15>>, <<20, 15>>, <<390, 25>> }

InitParticle ==
    \E s \in ParticleStarts :
        /\ rng = 8
        /\ RunningWith(400, 30,
               <<[Particle(0, 400, 30) EXCEPT
                     !.x = s[1], !.baseX = s[1], !.y = s[2], !.baseY = s[2],
                     !.vx = s[3], !.vy = s[4]]>>,
               0)

NextParticle ==
    \/ \E id \in pending : Frame(id)
    \/ \E p \in ParticlePointers : MouseMove(p[1], p[2])

SpecParticle == InitParticle /\ [][NextParticle]_vars

----------------------------------------------------------------------------
(* Connector pass and colour cycle properties *)

\* the threshold of the connector pass (px): 120, or 100 on a mobile profile
Threshold == IF isMobile THEN 100 ELSE 120

\* the squared distance of particles a and b, in squared coordinate units
PairDistanceSquared(a, b) ==
    (particles[a].x - particles[b].x) * (particles[a].x - particles[b].x)
    + (particles[a].y - particles[b].y) * (particles[a].y - particles[b].y)

\* C8: in the connector pass of a frame every unordered pair of particles is
\* examined exactly once, no line is drawn for a pair farther apart than the
\* threshold, and a line of opacity > 0 is drawn for every pair at distance 0.
C8_ConnectorPass ==
    lastEvent = "frame" =>
        LET n == Len(particles)
        IN /\ \A a \in 1..n : \A b \in (a + 1)..n :
                 Cardinality({k \in DOMAIN examined :
                     examined[k] = <<a, b>> \/ examined[k] = <<b, a>>}) = 1
           /\ \A k \in DOMAIN examined :
                 examined[k][1] \in 1..n /\ examined[k][2] \in 1..n
                 /\ examined[k][1] # examined[k][2]
           /\ \A k \in DOMAIN lines :
                 PairDistanceSquared(lines[k].a, lines[k].b)
                     <= (Threshold * Scale) * (Threshold * Scale)
           /\ \A a \in 1..n : \A b \in (a + 1)..n :
                 PairDistanceSquared(a, b) = 0 =>
                     \E k \in DOMAIN lines :
                         lines[k].a = a /\ lines[k].b = b /\ lines[k].opacity > 0

\* a frame in which a pair at distance 0 got its line and a pair beyond the
\* threshold was examined and got none
C8_Witness ==
    /\ lastEvent = "frame"
    /\ \E k \in DOMAIN lines : PairDistanceSquared(lines[k].a, lines[k].b) = 0
    /\ \E k \in DOMAIN examined :
          /\ PairDistanceSquared(examined[k][1], examined[k][2])
                > (Threshold * Scale) * (Threshold * Scale)
          /\ \A j \in DOMAIN lines :
                <<lines[j].a, lines[j].b>> # examined[k]

\* C9: for every clock value and colour offset the palette segment read is one
\* of 0..N-2 (so index + 1 is an entry too) and every channel of the colour is
\* an integer in 0..255; so for the colours of the discs and lines drawn.
C9_ColorInRange ==
    /\ \A i \in DOMAIN particles :
          LET color == getCurrentSunsetColor(colorTime, particles[i].colorOffset)
          IN /\ SegmentIndex(colorTime, particles[i].colorOffset)
                    \in 0..(PaletteLength - 2)
             /\ color.r \in 0..255
             /\ color.g \in 0..255
             /\ color.b \in 0..255
    /\ \A i \in DOMAIN discs :
          /\ discs[i].index \in 0..(PaletteLength - 2)
          /\ discs[i].color.r \in 0..255
          /\ discs[i].color.g \in 0..255
          /\ discs[i].color.b \in 0..255
    /\ \A k \in DOMAIN lines :
          /\ lines[k].color.r \in 0..255
          /\ lines[k].color.g \in 0..255
          /\ lines[k].color.b \in 0..255

\* a disc was drawn whose phase wrapped: clock plus offset passed the end of
\* the cycle and the first segment was read
C9_Witness ==
    /\ lastEvent = "frame"
    /\ \E i \in DOMAIN discs :
          /\ colorTime + particles[i].colorOffset >= ColorUnit
          /\ discs[i].index = 0

\* the largest difference of a channel between neighbouring palette entries
MaxAnchorDelta ==
    LET deltas == UNION { { Abs(sunsetColors[i + 1].r - sunsetColors[i].r),
                            Abs(sunsetColors[i + 1].g - sunsetColors[i].g),
                            Abs(sunsetColors[i + 1].b - sunsetColors[i].b) } :
                          i \in 0..(PaletteLength - 2) }
    IN CHOOSE d \in deltas : \A e \in deltas : e <= d

\* the largest change of a channel over one clock increment inside a segment,
\* rounded up, plus one for the rounding of the two colours
ColorStepBound ==
    (MaxAnchorDelta * (PaletteLength - 1) * ColorIncrement + ColorUnit - 1)
        \div ColorUnit + 1

ChannelDistance(c1, c2) ==
    LET d == { Abs(c1.r - c2.r), Abs(c1.g - c2.g), Abs(c1.b - c2.b) }
    IN CHOOSE x \in d : \A y \in d : y <= x

\* C10: the colour a particle is drawn in and the colour it gets one clock
\* increment later differ by no more than ColorStepBound in any channel,
\* also where the phase wraps from just below 1 to 0.
C10_NoDiscontinuity ==
    \A i \in DOMAIN discs :
        ChannelDistance(discs[i].color,
            getCurrentSunsetColor((colorTime + ColorIncrement) % ColorUnit,
                                  particles[i].colorOffset))
        <= ColorStepBound

----------------------------------------------------------------------------
(* Particle motion properties *)

\* the pointer position in coordinate units
PointerAt == <<mouseX * Scale, mouseY * Scale>>

\* the particle the next frame makes of particle i
Updated(i) == update(particles[i], mouseX, mouseY, canvasW, canvasH)

\* C11: Particle.update special-cases a pointer distance of exactly 0: with
\* the pointer on a particle the update yields no NaN, and after any pointer
\* events and frames no particle's x or y is NaN.
C11_NoNaN ==
    \A i \in DOMAIN particles :
        /\ ~IsNaN(particles[i].x)
        /\ ~IsNaN(particles[i].y)
        /\ <<particles[i].x, particles[i].y>> = PointerAt =>
              ~IsNaN(Updated(i).x) /\ ~IsNaN(Updated(i).y)

\* whether particle i has numbers for coordinates
IsPlaced(i) == ~IsNaN(particles[i].x) /\ ~IsNaN(particles[i].y)

\* whether particle i is within maxDistance of the tracked pointer
NearPointer(i) ==
    /\ IsPlaced(i)
    /\ (PointerAt[1] - particles[i].x) * (PointerAt[1] - particles[i].x)
         + (PointerAt[2] - particles[i].y) * (PointerAt[2] - particles[i].y)
       < PointerRadius * PointerRadius

\* whether coordinate c lies within the extent 0..limit (px)
Within(c, limit) == 0 <= c /\ c <= limit * Scale

\* C12: an update changes the sign of vx exactly when it has advanced x and
\* left it below 0 or above the canvas width, and vx is unchanged by every
\* update that leaves x within the width; so for vy and the height. The
\* update that repels the particle from the pointer changes neither.
C12_FlipOnCrossing ==
    \A i \in DOMAIN particles :
        IsPlaced(i) =>
            LET p == particles[i]
                q == Updated(i)
            IN IF NearPointer(i)
               THEN q.vx = p.vx /\ q.vy = p.vy
               ELSE /\ q.x = p.x + p.vx
                    /\ q.y = p.y + p.vy
                    /\ q.vx = IF Within(q.x, canvasW) THEN p.vx ELSE -p.vx
                    /\ q.vy = IF Within(q.y, canvasH) THEN p.vy ELSE -p.vy

\* a frame took a particle moving right from within the width to beyond it
\* and turned it round, the frame before having left it on the edge unturned
C12_Witness ==
    /\ lastEvent = "frame"
    /\ \E i \in DOMAIN particles :
          /\ particles[i].x = canvasW * Scale + 1
          /\ particles[i].vx = -1
          /\ particles[i].baseX = canvasW * Scale - 1

\* C13: while no pointer or touch position has been accepted, an update only
\* advances each particle by its velocity (turning the velocity round beyond
\* an edge), wherever the particle is, within 150 px of the origin included.
C13_UnsetPointerSkips ==
    ~pointerAccepted =>
        \A i \in DOMAIN particles :
            LET p == particles[i]
                q == Updated(i)
            IN /\ q.x = p.x + p.vx
               /\ q.y = p.y + p.vy
               /\ q.vx \in {p.vx, -p.vx}
               /\ q.vy \in {p.vy, -p.vy}

\* the particle two further frames make of particle i, the pointer at rest
UpdatedTwice(i) == update(Updated(i), mouseX, mouseY, canvasW, canvasH)

\* particle i is outside the extent on an axis and two frames bring it back
\* to where it is, outside on that axis in between: under continued frames
\* it stays outside for ever, its velocity on the axis turning every frame
StuckOutside(i) ==
    /\ UpdatedTwice(i) = particles[i]
    /\ \/ ~Within(particles[i].x, canvasW) /\ ~Within(Updated(i).x, canvasW)
       \/ ~Within(particles[i].y, canvasH) /\ ~Within(Updated(i).y, canvasH)

\* C14: a particle outside the canvas extent on an axis and farther than 150
\* px from the pointer gets back inside on that axis under continued frames:
\* it is never in a state the frames repeat for ever outside the extent.
C14_OvershootIsBrief ==
    \A i \in DOMAIN particles :
        (IsPlaced(i) /\ ~NearPointer(i)) => ~StuckOutside(i)

----------------------------------------------------------------------------
(* The cycle clock and the rebuild *)

\* the clock one frame body after ct
Ticked(ct) == (ct + ColorIncrement) % ColorUnit

\* C15 as claimed: colorTime is always in [0, 1) and changes only by one
\* increment (modulo 1) in an accepted frame: the first frame of the
\* initialization or a frame callback with both signals true; no pointer,
\* visibility, intersection or resize event changes it.
C15_ClockOnlyOnFrames ==
    [][ /\ colorTime' \in 0..(ColorUnit - 1)
        /\ colorTime' # colorTime =>
              /\ lastEvent' \in {"startup", "frame"}
              /\ colorTime' = Ticked(colorTime) ]_vars

\* what a step may do to the clock
ClockStep ==
    /\ colorTime' # colorTime =>
          /\ lastEvent' \in {"startup", "frame", "visibilitychange", "intersection"}
          /\ lastEvent' # "intersection" => colorTime' = Ticked(colorTime)
          /\ \E k \in 1..MaxEntries :
                colorTime' = (colorTime + k * ColorIncrement) % ColorUnit
    /\ lastEvent' = "frame" =>
          (colorTime' # colorTime <=> isPageVisible /\ isCanvasVisible)
    /\ lastEvent' = "visibilitychange" =>
          (colorTime' # colorTime <=>
              ~isAnimating /\ isPageVisible' /\ isCanvasVisible)
    /\ lastEvent' \in {"mousemove", "touchmove", "resize", "rebuild", "beforeunload"} =>
          colorTime' = colorTime

\* C15 amended: colorTime is always in [0, 1) and changes only when animate's
\* frame body runs, by one increment (modulo 1) each time: in a frame
\* callback exactly when both signals are true, and inside startAnimation
\* when the initialization, a visibilitychange or an intersection event
\* starts a stopped loop. Pointer and resize events, the rebuild and
\* beforeunload never change it.
C15_ClockByFrameBody ==
    /\ [](colorTime \in 0..(ColorUnit - 1))
    /\ [][ClockStep]_vars

\* the page became visible, the loop was stopped and restarted, and the
\* restart ran a frame body: the clock is past the frame of the initialization
C15_Witness ==
    /\ lastEvent = "visibilitychange"
    /\ lastCall = "startAnimation"
    /\ ~wasAnimating
    /\ isAnimating
    /\ colorTime >= 2 * ColorIncrement

\* what the constructor fixes of a particle: it tells the particles apart
Identity(p) ==
    <<p.baseX, p.baseY, p.size, p.density, p.colorOffset, p.pulsePhase>>

\* what a step may do to the particle set
RebuildStep ==
    /\ lastEvent' = "rebuild" =>
          /\ canvasW' = winW /\ canvasH' = winH
          /\ IsCeilCount(Len(particles'), winW * winH,
                         DensityFactorOf(Profile), MaxParticlesOf(Profile))
          /\ \E seed \in Seeds :
                particles' = ParticlesFrom(seed, Len(particles'), winW, winH)
          /\ UNCHANGED <<isAnimating, animationId, pending, nextId, isPageVisible,
                         isCanvasVisible, colorTime, mouseX, mouseY>>
    /\ lastEvent' \notin {"rebuild", "startup"} =>
          /\ Len(particles') = Len(particles)
          /\ \A i \in DOMAIN particles :
                Identity(particles'[i]) = Identity(particles[i])

\* C16: the resize rebuild replaces the particles by a fresh batch, just
\* constructed and sized by the sizing policy for the new canvas extent (the
\* window's), and leaves isAnimating, the pending frame, the visibility
\* signals, the clock and the pointer position as they were; no other step
\* after the initialization changes which particles there are.
C16_RebuildReplaces == [][RebuildStep]_vars

\* a rebuild while the loop ran, the clock advanced and a pointer position
\* accepted, the particles having moved before
C16_Witness ==
    /\ lastEvent = "rebuild"
    /\ isAnimating
    /\ pending # {}
    /\ colorTime >= 2 * ColorIncrement
    /\ pointerAccepted
    /\ mouseX # 0
    /\ Len(particles) > 0
    /\ discs = <<>>

\* C17: the profile is read again at every rebuild: after a rebuild with the
\* window narrower than 768 px the batch has the size of the mobile row (or of
\* the reduced-motion row) and the connector pass uses the mobile threshold.
C17_ProfileReread ==
    (lastEvent = "rebuild" /\ winW < 768) =>
        LET row == SizingRow(prefersReducedMotion, TRUE)
        IN /\ Len(particles) =
                  LoopCount(canvasW * canvasH, row.densityFactor, row.maxParticles)
           /\ ConnectDistance(isMobile) = ConnectDistance(TRUE)

----------------------------------------------------------------------------
(* Timer properties *)

SchedulingTimers == Pending({"sunbeamStart", "sunbeam"})

ClearingTimers == Pending({"sunbeamClear"})

\* C18: once the script has run exactly one scheduling timer of the sunbeam
\* chain is pending, whatever the lifecycle state and the visibility signals
\* (each firing sets the next), every timer set by scheduleSunbeam has a
\* delay in 15000..45000 ms, and the one clearing timer pending is that of
\* the last flash, due 3000 ms after it and before the next flash: it does
\* not fire during a later flash.
C18_SunbeamChain ==
    /\ Cardinality(SchedulingTimers) <= 1
    /\ phase # "load" => Cardinality(SchedulingTimers) = 1
    /\ \A t \in Pending({"sunbeam"}) : t.due - t.setAt \in 15000..45000
    /\ Cardinality(ClearingTimers) <= 1
    /\ sunbeamActive <=> ClearingTimers # {}
    /\ \A c \in ClearingTimers :
          /\ c.setAt = lastFlashAt
          /\ c.due = lastFlashAt + 3000
          /\ \A t \in SchedulingTimers : c.due < t.due

\* a second flash has just begun, with the page hidden and the loop stopped,
\* the clearing timer of the first flash having fired
C18_Witness ==
    /\ lastEvent = "sunbeam"
    /\ sunbeamActive
    /\ lastFlashAt = now
    /\ lastFlashAt > 5000 + 45000
    /\ hidden
    /\ ~isAnimating
    /\ Cardinality(ClearingTimers) = 1

ResizeTimers == Pending({"resize"})

\* C19: at most one resize timer is pending, and it is the one the last
\* resize event set, due 250 ms after that event (the event cancelled the one
\* before); every burst of resize events less than 250 ms apart has had its
\* one rebuild or has its timer pending; and a rebuild runs 250 ms after the
\* last event and gives the canvas the window's size of that moment.
C19_ResizeDebounced ==
    /\ Cardinality(ResizeTimers) <= 1
    /\ resizeTimer <=> ResizeTimers # {}
    /\ \A t \in ResizeTimers :
          /\ t.id = resizeTimeout
          /\ t.setAt = lastResizeAt
          /\ t.due = lastResizeAt + ResizeDelay
    /\ rebuilds + Cardinality(ResizeTimers) = bursts
    /\ lastEvent = "rebuild" =>
          /\ now = lastResizeAt + ResizeDelay
          /\ canvasW = winW
          /\ canvasH = winH

\* the rebuild of a burst of three events or more, spread over 250 ms or
\* more, that followed an earlier burst and its rebuild
C19_Witness ==
    /\ lastEvent = "rebuild"
    /\ bursts = 2
    /\ rebuilds = 2
    /\ nextTimer > 5
    /\ lastResizeAt >= 2 * ResizeDelay

\* C20: once the scroll events have stopped and the throttle's window has
\* reopened, nav has the class 'scrolled' exactly if window.scrollY > 50,
\* whatever scroll events came before and whenever the last one came.
C20_NavFollowsScroll ==
    (~inThrottle /\ Pending({"throttle"}) = {}) =>
        (navScrolled <=> scrollY > 50)

====
